---- MODULE Spec2Model ----
(***************************************************************************)
(* Model of src/app.py: a Streamlit comment board on one shared SQLite     *)
(* connection.  Every script run (one per request) executes                *)
(*   reset_comments_if_needed -> form handling -> get_comments             *)
(* and several runs interleave at statement granularity on the shared      *)
(* connection (st.cache_resource, check_same_thread=False).                *)
(*                                                                         *)
(* Text is a sequence of symbols.  " " is a whitespace character, "S" is   *)
(* the substring "https://", "P" is "http://", "G" is the remainder of     *)
(* REQUIRED_PREFIX after the scheme, every other symbol is one ordinary    *)
(* non-whitespace character.  Time is in seconds.                          *)
(***************************************************************************)
EXTENDS Integers, Sequences, FiniteSets, TLC

VARIABLES clock, db, durable, pc, cycle_start, now, elapsed, reset_happened,
          remaining, submitted, username, content, new_urls, result, rows

vars == <<clock, db, durable, pc, cycle_start, now, elapsed, reset_happened,
          remaining, submitted, username, content, new_urls, result, rows>>

\* ---------------------------------------------------------------- bounds
MaxTime == 450
MaxId == 2
MaxLen == 4

\* ------------------------------------------------------------- constants
RESET_SECONDS == 300
REQUIRED_PREFIX == <<"S", "G">>
DEFAULT_USERNAME == <<"anonymous">>

Procs == {"r1", "r2"}
TickSteps == {150}
\* the submissions a request may make: <<username, content>>
Inputs == { << <<>>, <<>> >>,
            << <<" ", "u">>, <<" ">> >>,
            << <<"u">>, <<"x">> >>,
            << <<>>, <<"S", "o">> >>,
            << <<" ", "u">>, <<" ", "x", "S", "G", "a", " ">> >>,
            << <<" ">>, <<"S", "G", "b">> >> }

\* -------------------------------------------------------- pure functions
IsSpace(c) == c = " "

RECURSIVE lstrip(_)
lstrip(s) == IF s = <<>> THEN s
             ELSE IF IsSpace(Head(s)) THEN lstrip(Tail(s)) ELSE s

RECURSIVE rstrip(_)
rstrip(s) == IF s = <<>> THEN s
             ELSE IF IsSpace(s[Len(s)]) THEN rstrip(SubSeq(s, 1, Len(s) - 1))
             ELSE s

strip(s) == rstrip(lstrip(s))

startswith(u, prefix) ==
    /\ Len(u) >= Len(prefix)
    /\ SubSeq(u, 1, Len(prefix)) = prefix

\* a match of [^\s]+ that stops after one character
RunEnd_one(text, j) == j

\* last index of the run of non-whitespace characters that contains index j
RECURSIVE RunEnd(_, _)
RunEnd(text, j) == IF j + 1 <= Len(text) /\ ~IsSpace(text[j + 1])
                   THEN RunEnd(text, j + 1) ELSE j

\* re.findall(r'(https?://[^\s]+)', text), scanning from index i
RECURSIVE findall(_, _)
findall(text, i) ==
    IF i > Len(text) THEN {}
    ELSE IF /\ text[i] \in {"S", "P"}
            /\ i + 1 <= Len(text)
            /\ ~IsSpace(text[i + 1])
         THEN LET e == RunEnd(text, i + 1)
              IN  {SubSeq(text, i, e)} \cup findall(text, e + 1)
         ELSE findall(text, i + 1)

extract_urls(text) == findall(text, 1)

gf_links(text) == {u \in extract_urls(text) : startswith(u, REQUIRED_PREFIX)}

get_all_urls(d) == UNION {extract_urls(c.content) : c \in d.comments}

\* ORDER BY id without DESC
RECURSIVE OrderByIdAsc(_)
OrderByIdAsc(S) ==
    IF S = {} THEN <<>>
    ELSE LET m == CHOOSE c \in S : \A x \in S : x.id >= c.id
         IN  <<m>> \o OrderByIdAsc(S \ {m})

\* ORDER BY id DESC
RECURSIVE OrderByIdDesc(_)
OrderByIdDesc(S) ==
    IF S = {} THEN <<>>
    ELSE LET m == CHOOSE c \in S : \A x \in S : x.id <= c.id
         IN  <<m>> \o OrderByIdDesc(S \ {m})

get_comments(d) == OrderByIdDesc(d.comments)

\* int(RESET_SECONDS - elapsed), clamped at 0
Remaining(e) == IF RESET_SECONDS - e < 0 THEN 0 ELSE RESET_SECONDS - e

\* ------------------------------------------------------------------ init
\* state after get_connection(): both tables exist and are empty
EmptyDb == [comments |-> {}, meta |-> {}, seq |-> 0]

Init ==
    /\ clock = 0
    /\ db = EmptyDb
    /\ durable = EmptyDb
    /\ pc = [p \in Procs |-> "idle"]
    /\ cycle_start = [p \in Procs |-> 0]
    /\ now = [p \in Procs |-> 0]
    /\ elapsed = [p \in Procs |-> 0]
    /\ reset_happened = [p \in Procs |-> FALSE]
    /\ remaining = [p \in Procs |-> 0]
    /\ submitted = [p \in Procs |-> FALSE]
    /\ username = [p \in Procs |-> <<>>]
    /\ content = [p \in Procs |-> <<>>]
    /\ new_urls = [p \in Procs |-> {}]
    /\ result = [p \in Procs |-> "none"]
    /\ rows = [p \in Procs |-> <<>>]

\* --------------------------------------------------------------- actions
\* the wall clock advances
Tick ==
    /\ \E d \in TickSteps : clock + d <= MaxTime /\ clock' = clock + d
    /\ UNCHANGED <<db, durable, pc, cycle_start, now, elapsed, reset_happened,
                   remaining, submitted, username, content, new_urls, result, rows>>

\* a request starts a script run: all script variables are fresh
NewRun(p) ==
    /\ pc[p] \in {"idle", "done", "error"}
    /\ pc' = [pc EXCEPT ![p] = "gcs_select"]
    /\ cycle_start' = [cycle_start EXCEPT ![p] = 0]
    /\ now' = [now EXCEPT ![p] = 0]
    /\ elapsed' = [elapsed EXCEPT ![p] = 0]
    /\ reset_happened' = [reset_happened EXCEPT ![p] = FALSE]
    /\ remaining' = [remaining EXCEPT ![p] = 0]
    /\ submitted' = [submitted EXCEPT ![p] = FALSE]
    /\ username' = [username EXCEPT ![p] = <<>>]
    /\ content' = [content EXCEPT ![p] = <<>>]
    /\ new_urls' = [new_urls EXCEPT ![p] = {}]
    /\ result' = [result EXCEPT ![p] = "none"]
    /\ rows' = [rows EXCEPT ![p] = <<>>]
    /\ UNCHANGED <<clock, db, durable>>

\* get_cycle_start: SELECT value FROM meta WHERE key = 'cycle_start'
get_cycle_start_select(p) ==
    /\ pc[p] = "gcs_select"
    /\ IF db.meta = {}
       THEN /\ pc' = [pc EXCEPT ![p] = "gcs_now"]
            /\ UNCHANGED cycle_start
       ELSE /\ cycle_start' = [cycle_start EXCEPT ![p] = CHOOSE v \in db.meta : TRUE]
            /\ pc' = [pc EXCEPT ![p] = "r_now"]
    /\ UNCHANGED <<clock, db, durable, now, elapsed, reset_happened, remaining,
                   submitted, username, content, new_urls, result, rows>>

\* get_cycle_start: now = datetime.utcnow() (the value it will return)
get_cycle_start_now(p) ==
    /\ pc[p] = "gcs_now"
    /\ cycle_start' = [cycle_start EXCEPT ![p] = clock]
    /\ pc' = [pc EXCEPT ![p] = "gcs_insert"]
    /\ UNCHANGED <<clock, db, durable, now, elapsed, reset_happened, remaining,
                   submitted, username, content, new_urls, result, rows>>

\* a meta table whose key is not PRIMARY KEY accepts a second row
KeyExists_nopk(m) == FALSE

\* meta.key is PRIMARY KEY: a row with key 'cycle_start' is already there
KeyExists(m) == m # {}

\* get_cycle_start: INSERT INTO meta; a second row with key 'cycle_start'
\* raises IntegrityError and the run aborts
get_cycle_start_insert(p) ==
    /\ pc[p] = "gcs_insert"
    /\ IF KeyExists(db.meta)
       THEN /\ pc' = [pc EXCEPT ![p] = "error"]
            /\ UNCHANGED db
       ELSE /\ db' = [db EXCEPT !.meta = @ \cup {cycle_start[p]}]
            /\ pc' = [pc EXCEPT ![p] = "gcs_commit"]
    /\ UNCHANGED <<clock, durable, cycle_start, now, elapsed, reset_happened,
                   remaining, submitted, username, content, new_urls, result, rows>>

\* get_cycle_start: conn.commit(); return now
get_cycle_start_commit(p) ==
    /\ pc[p] = "gcs_commit"
    /\ durable' = db
    /\ pc' = [pc EXCEPT ![p] = "r_now"]
    /\ UNCHANGED <<clock, db, cycle_start, now, elapsed, reset_happened,
                   remaining, submitted, username, content, new_urls, result, rows>>

\* a test that never finds the interval elapsed
Expired_never(e) == FALSE

\* the test of line 83 written with > instead of >=
Expired_strict(e) == e > RESET_SECONDS

\* the test of line 83 with the interval taken in minutes
Expired_minutes(e) == e >= 5

\* the test of line 83
Expired(e) == e >= RESET_SECONDS

\* reset_comments_if_needed: now = utcnow(); elapsed; the test of line 83;
\* without a reset it returns (cycle_start, elapsed, False) and the script
\* computes the remaining time
reset_comments_if_needed_now(p) ==
    /\ pc[p] = "r_now"
    /\ now' = [now EXCEPT ![p] = clock]
    /\ elapsed' = [elapsed EXCEPT ![p] = clock - cycle_start[p]]
    /\ IF Expired(clock - cycle_start[p])
       THEN /\ pc' = [pc EXCEPT ![p] = "r_delete"]
            /\ UNCHANGED remaining
       ELSE /\ pc' = [pc EXCEPT ![p] = "form"]
            /\ remaining' = [remaining EXCEPT ![p] = Remaining(clock - cycle_start[p])]
    /\ UNCHANGED <<clock, db, durable, cycle_start, reset_happened, submitted,
                   username, content, new_urls, result, rows>>

\* a DELETE that removes only the oldest row
DeleteAll_oldest(S) ==
    IF S = {} THEN {}
    ELSE S \ {CHOOSE c \in S : \A x \in S : x.id >= c.id}

\* a reset that forgets the DELETE
DeleteAll_none(S) == S

\* the rows left by DELETE FROM comments
DeleteAll(S) == {}

\* the UPDATE writes back the value that was read instead of now
NewCycleStart_stale(p) == cycle_start[p]

\* the value the UPDATE of lines 87-90 writes
NewCycleStart(p) == now[p]

\* reset_comments_if_needed: DELETE FROM comments
reset_comments_if_needed_delete(p) ==
    /\ pc[p] = "r_delete"
    /\ db' = [db EXCEPT !.comments = DeleteAll(@)]
    /\ pc' = [pc EXCEPT ![p] = "r_update"]
    /\ UNCHANGED <<clock, durable, cycle_start, now, elapsed, reset_happened,
                   remaining, submitted, username, content, new_urls, result, rows>>

\* reset_comments_if_needed: UPDATE meta SET value = now WHERE key = ...
reset_comments_if_needed_update(p) ==
    /\ pc[p] = "r_update"
    /\ db' = [db EXCEPT !.meta = IF @ = {} THEN {} ELSE {NewCycleStart(p)}]
    /\ pc' = [pc EXCEPT ![p] = "r_commit"]
    /\ UNCHANGED <<clock, durable, cycle_start, now, elapsed, reset_happened,
                   remaining, submitted, username, content, new_urls, result, rows>>

\* reset_comments_if_needed: conn.commit(); return now, elapsed, True
reset_comments_if_needed_commit(p) ==
    /\ pc[p] = "r_commit"
    /\ durable' = db
    /\ cycle_start' = [cycle_start EXCEPT ![p] = now[p]]
    /\ reset_happened' = [reset_happened EXCEPT ![p] = TRUE]
    /\ remaining' = [remaining EXCEPT ![p] = Remaining(elapsed[p])]
    /\ pc' = [pc EXCEPT ![p] = "form"]
    /\ UNCHANGED <<clock, db, now, elapsed, submitted, username, content, new_urls,
                   result, rows>>

\* appends still to come from runs that already passed validation
PendingAppends == Cardinality({q \in Procs : pc[q] = "add_insert"})

\* the page is rendered without a submission
view(p) ==
    /\ pc[p] = "form"
    /\ pc' = [pc EXCEPT ![p] = "list"]
    /\ UNCHANGED <<clock, db, durable, cycle_start, now, elapsed,
                   reset_happened, remaining, submitted, username, content, new_urls,
                   result, rows>>

\* the test of line 208 without the strip()
Blank_nostrip(c) == c = <<>>

\* content.strip() of line 208
Blank(c) == strip(c) = <<>>

\* the checks without the duplicate test of lines 225-228
validate_nodup(c, d) ==
    IF Blank(c) THEN "EmptyContent"
    ELSE IF gf_links(c) = {} THEN "MissingRequiredLink"
    ELSE "ok"

\* the checks with any URL accepted as the required link
validate_anyurl(c, d) ==
    IF Blank(c) THEN "EmptyContent"
    ELSE IF extract_urls(c) = {} THEN "MissingRequiredLink"
    ELSE IF gf_links(c) \cap get_all_urls(d) # {} THEN "DuplicateLink"
    ELSE "ok"

\* the outcome of the checks of lines 208-228 for content c against store d
validate(c, d) ==
    IF Blank(c) THEN "EmptyContent"
    ELSE IF gf_links(c) = {} THEN "MissingRequiredLink"
    ELSE IF gf_links(c) \cap get_all_urls(d) # {} THEN "DuplicateLink"
    ELSE "ok"

\* the form is submitted: lines 207-236; a rejected submission shows its
\* message and falls through to the comment list
submit(p) ==
    /\ pc[p] = "form"
    /\ \E in \in Inputs :
        /\ validate(in[2], db) = "ok" => db.seq + PendingAppends < MaxId
        /\ submitted' = [submitted EXCEPT ![p] = TRUE]
        /\ username' = [username EXCEPT ![p] = in[1]]
        /\ content' = [content EXCEPT ![p] = in[2]]
        /\ new_urls' = [new_urls EXCEPT ![p] =
                          IF Blank(in[2]) THEN {} ELSE extract_urls(in[2])]
        /\ IF validate(in[2], db) = "ok"
           THEN /\ pc' = [pc EXCEPT ![p] = "add_insert"]
                /\ UNCHANGED result
           ELSE /\ result' = [result EXCEPT ![p] = validate(in[2], db)]
                /\ pc' = [pc EXCEPT ![p] = "list"]
    /\ UNCHANGED <<clock, db, durable, cycle_start, now, elapsed,
                   reset_happened, remaining, rows>>

\* the username without the default of lines 235-236
stored_username_nodefault(u) == strip(u)

\* lines 235-237: a blank username becomes the default, then username.strip()
stored_username(u) == IF strip(u) = <<>> THEN strip(DEFAULT_USERNAME)
                      ELSE strip(u)

\* an id column without AUTOINCREMENT: one more than the largest id stored
NextId_rowid(d) ==
    IF d.comments = {} THEN 1
    ELSE (CHOOSE c \in d.comments : \A x \in d.comments : x.id <= c.id).id + 1

\* id INTEGER PRIMARY KEY AUTOINCREMENT: one more than the largest id ever
\* assigned, which DELETE does not reset
NextId(d) == d.seq + 1

\* an INSERT that refuses a row whose URL is already stored
InsertRow_unique(S, row) ==
    IF extract_urls(row.content)
          \cap UNION {extract_urls(c.content) : c \in S} # {}
    THEN S ELSE S \cup {row}

\* the rows of comments after the INSERT of lines 100-106
InsertRow(S, row) == S \cup {row}

\* add_comment: INSERT INTO comments with created_at = utcnow()
add_comment_insert(p) ==
    /\ pc[p] = "add_insert"
    /\ db' = [db EXCEPT !.seq = @ + 1,
                        !.comments = InsertRow(@,
                                         [id |-> NextId(db),
                                          username |-> stored_username(username[p]),
                                          content |-> strip(content[p]),
                                          created_at |-> clock])]
    /\ pc' = [pc EXCEPT ![p] = "add_commit"]
    /\ UNCHANGED <<clock, durable, cycle_start, now, elapsed, reset_happened,
                   remaining, submitted, username, content, new_urls, result, rows>>

\* add_comment: conn.commit(); the script reports success
add_comment_commit(p) ==
    /\ pc[p] = "add_commit"
    /\ durable' = db
    /\ result' = [result EXCEPT ![p] = "ok"]
    /\ pc' = [pc EXCEPT ![p] = "list"]
    /\ UNCHANGED <<clock, db, cycle_start, now, elapsed, reset_happened,
                   remaining, submitted, username, content, new_urls, rows>>

\* rows = get_comments(conn); the script run ends: the page keeps what it
\* rendered, the form is cleared (clear_on_submit=True)
list(p) ==
    /\ pc[p] = "list"
    /\ rows' = [rows EXCEPT ![p] = get_comments(db)]
    /\ pc' = [pc EXCEPT ![p] = "done"]
    /\ username' = [username EXCEPT ![p] = <<>>]
    /\ content' = [content EXCEPT ![p] = <<>>]
    /\ new_urls' = [new_urls EXCEPT ![p] = {}]
    /\ UNCHANGED <<clock, db, durable, cycle_start, now, elapsed,
                   reset_happened, remaining, submitted, result>>

Step(p) ==
    \/ NewRun(p)
    \/ get_cycle_start_select(p)
    \/ get_cycle_start_now(p)
    \/ get_cycle_start_insert(p)
    \/ get_cycle_start_commit(p)
    \/ reset_comments_if_needed_now(p)
    \/ reset_comments_if_needed_delete(p)
    \/ reset_comments_if_needed_update(p)
    \/ reset_comments_if_needed_commit(p)
    \/ view(p)
    \/ submit(p)
    \/ add_comment_insert(p)
    \/ add_comment_commit(p)
    \/ list(p)

\* concurrent requests: script runs interleave statement by statement
Next == Tick \/ \E p \in Procs : Step(p)

Spec == Init /\ [][Next]_vars

\* one request at a time: a script run starts only when no other is running
Quiet(p) == \A q \in Procs \ {p} : pc[q] \in {"idle", "done", "error"}

NextSeq == Tick \/ \E p \in Procs : Quiet(p) /\ Step(p)

SpecSeq == Init /\ [][NextSeq]_vars

\* submissions one at a time: while a run is between its validation and its
\* append no other run takes a step
NoPendingAppend(p) == \A q \in Procs \ {p} : pc[q] # "add_insert"

NextSerial == Tick \/ \E p \in Procs : NoPendingAppend(p) /\ Step(p)

SpecSerial == Init /\ [][NextSerial]_vars

\* one request at a time, the clock keeps advancing, a script run that has
\* started goes on to its end, and requests keep arriving
SpecFair ==
    /\ Init /\ [][NextSeq]_vars
    /\ WF_vars(Tick)
    /\ WF_vars(\E p \in Procs : Quiet(p) /\ Step(p))

\* extract_urls on its own: every text over a small alphabet, with both
\* schemes, whitespace and one ordinary character
Alphabet == {" ", "S", "P", "x"}
Texts == UNION {[1..n -> Alphabet] : n \in 0..MaxLen}

InitPure ==
    /\ clock = 0
    /\ db = EmptyDb
    /\ durable = EmptyDb
    /\ pc = [p \in Procs |-> "extract"]
    /\ cycle_start = [p \in Procs |-> 0]
    /\ now = [p \in Procs |-> 0]
    /\ elapsed = [p \in Procs |-> 0]
    /\ reset_happened = [p \in Procs |-> FALSE]
    /\ remaining = [p \in Procs |-> 0]
    /\ submitted = [p \in Procs |-> TRUE]
    /\ username = [p \in Procs |-> <<>>]
    /\ \E t \in Texts : content = [p \in Procs |-> t]
    /\ new_urls = [p \in Procs |-> {}]
    /\ result = [p \in Procs |-> "none"]
    /\ rows = [p \in Procs |-> <<>>]

\* new_urls = extract_urls(content), line 212
ExtractUrls(p) ==
    /\ pc[p] = "extract"
    /\ new_urls' = [new_urls EXCEPT ![p] = extract_urls(content[p])]
    /\ pc' = [pc EXCEPT ![p] = "extracted"]
    /\ UNCHANGED <<clock, db, durable, cycle_start, now, elapsed,
                   reset_happened, remaining, submitted, username, content,
                   result, rows>>

NextPure == \E p \in Procs : ExtractUrls(p)

SpecPure == InitPure /\ [][NextPure]_vars

\* ------------------------------------------------------------ properties
\* steps of a run, recognised by the program counter
Stepped(p, from, to) == pc[p] = from /\ pc'[p] = to
SubmitStep(p) == pc[p] = "form" /\ submitted'[p]
AfterReconcile == {"form", "add_insert", "add_commit", "list"}
IsBlankText(c) == \A i \in 1..Len(c) : c[i] = " "
ExpiredAt(t) == \E v \in db.meta : t - v >= RESET_SECONDS

\* C1: whenever reconcile finds elapsed >= 300 (300 included) it goes on to
\* DELETE every comment, UPDATE cycleStart to now and return didReset = TRUE
\* with the new cycleStart; the table then stays empty until the next append,
\* and a list of an empty table returns the empty sequence.
C1_ResetClearsAll ==
    [][\A p \in Procs :
        /\ (pc[p] = "r_now" /\ pc'[p] # "r_now" /\ clock - cycle_start[p] >= 300)
              => pc'[p] = "r_delete"
        /\ Stepped(p, "r_delete", "r_update") => db'.comments = {}
        /\ Stepped(p, "r_update", "r_commit") => db'.meta = {now[p]}
        /\ Stepped(p, "r_commit", "form")
              => reset_happened'[p] /\ cycle_start'[p] = now[p]
        /\ (db.comments = {} /\ db'.comments # {})
              => \E q \in Procs : Stepped(q, "add_insert", "add_commit")
        /\ (Stepped(p, "list", "done") /\ db.comments = {}) => rows'[p] = <<>>
    ]_vars

\* a run found elapsed = 300 exactly, reset a store that had held a comment
\* and listed nothing
C1_Witness ==
    \E p \in Procs : /\ pc[p] = "done"
                     /\ reset_happened[p]
                     /\ elapsed[p] = 300
                     /\ db.seq > 0
                     /\ rows[p] = <<>>

\* C2 as stated: no read returns a comment and no append is performed at a
\* moment when now - cycleStart >= 300.
C2_NoStaleReadOrWrite ==
    [][\A p \in Procs :
        /\ (Stepped(p, "list", "done") /\ rows'[p] # <<>>) => ~ExpiredAt(clock)
        /\ Stepped(p, "add_insert", "add_commit") => ~ExpiredAt(clock)
    ]_vars

\* C2 amended: with one page run at a time, at the read and at the append the
\* cycle is unexpired as of the clock value the run's reconcile sampled.
C2_FreshAsOfReconcile ==
    [][\A p \in Procs :
        (Stepped(p, "list", "done") \/ Stepped(p, "add_insert", "add_commit"))
            => (db.meta # {} /\ ~ExpiredAt(now[p]))
    ]_vars

\* a run appended and then read its comment back after its reconcile had
\* found the cycle part-way through
C2_Witness ==
    \E p \in Procs : /\ pc[p] = "done"
                     /\ result[p] = "ok"
                     /\ elapsed[p] = 150
                     /\ rows[p] # <<>>

\* C3: with submissions one at a time, a submission containing a
\* required-prefix URL that a stored comment already contains fails with
\* DuplicateLink and stores nothing, and no required-prefix URL is in two
\* different stored comments.
C3_DuplicateLinkRejected ==
    /\ [](\A c1, c2 \in db.comments :
             c1 # c2 => gf_links(c1.content) \cap gf_links(c2.content) = {})
    /\ [][\A p \in Procs :
            (SubmitStep(p) /\ gf_links(content'[p]) \cap get_all_urls(db) # {})
               => /\ result'[p] = "DuplicateLink"
                  /\ pc'[p] = "list"
                  /\ db' = db /\ durable' = durable
       ]_vars

\* a submission was rejected as a duplicate of a stored comment
C3_Witness ==
    \E p \in Procs : /\ pc[p] = "list"
                     /\ result[p] = "DuplicateLink"
                     /\ gf_links(content[p]) \cap get_all_urls(db) # {}

\* C4: every stored comment was created in the current cycle (a reset leaves
\* nothing of the cycle before it), and a submission whose required-prefix
\* URLs are in no stored comment is accepted and appended, never rejected
\* with DuplicateLink; so a URL stored before a reset is accepted again.
C4_AcceptedAfterReset ==
    /\ [](\A c \in db.comments : \A v \in db.meta : c.created_at >= v)
    /\ [][\A p \in Procs :
            /\ (/\ SubmitStep(p)
                /\ gf_links(content'[p]) # {}
                /\ gf_links(content'[p]) \cap get_all_urls(db) = {})
                  => (pc'[p] = "add_insert" /\ result'[p] # "DuplicateLink")
            /\ Stepped(p, "add_insert", "add_commit")
                  => \E c \in db'.comments \ db.comments :
                        c.content = strip(content[p])
       ]_vars

\* one run stored a URL in comment 1 and saw it listed; a later run reset the
\* store and its submission of the same URL was accepted as comment 2
C4_Witness ==
    \E p, q \in Procs :
        /\ p # q
        /\ pc[p] = "done" /\ result[p] = "ok" /\ Len(rows[p]) = 1
        /\ rows[p][1].id = 1
        /\ pc[q] = "done" /\ reset_happened[q] /\ result[q] = "ok"
        /\ Len(rows[q]) = 1
        /\ rows[q][1].id = 2
        /\ gf_links(rows[q][1].content) = gf_links(rows[p][1].content)
        /\ db.comments = {rows[q][1]}

\* C5: a submission whose content is empty or whitespace-only fails with
\* EmptyContent whatever the username and the store, and the submit step
\* changes neither the stored comments nor cycleStart.
C5_EmptyContent ==
    [][\A p \in Procs :
        (SubmitStep(p) /\ IsBlankText(content'[p]))
           => /\ result'[p] = "EmptyContent"
              /\ pc'[p] = "list"
              /\ db' = db /\ durable' = durable
    ]_vars

\* a whitespace-only submission with a username was rejected while the store
\* held a comment
C5_Witness ==
    \E p \in Procs : /\ pc[p] = "list"
                     /\ result[p] = "EmptyContent"
                     /\ content[p] = <<" ">>
                     /\ username[p] # <<>>
                     /\ db.comments # {}

\* C6: a non-blank submission without a required-prefix URL fails with
\* MissingRequiredLink and changes nothing in the store; every stored comment
\* contains a required-prefix URL.
C6_MissingRequiredLink ==
    /\ [](\A c \in db.comments : gf_links(c.content) # {})
    /\ [][\A p \in Procs :
            (SubmitStep(p) /\ ~IsBlankText(content'[p])
                           /\ gf_links(content'[p]) = {})
               => /\ result'[p] = "MissingRequiredLink"
                  /\ pc'[p] = "list"
                  /\ db' = db /\ durable' = durable
       ]_vars

\* a submission holding only a URL of another prefix was rejected
C6_Witness ==
    \E p \in Procs : /\ pc[p] = "list"
                     /\ result[p] = "MissingRequiredLink"
                     /\ extract_urls(content[p]) # {}

\* C7: a reconcile that finds elapsed < 300 returns the cycleStart it read
\* with didReset = FALSE and changes nothing in the store; with one run at a
\* time the value returned is the stored one, and a reconcile that follows a
\* no-reset reconcile with no time advance returns the same cycleStart and
\* didReset = FALSE.
C7_NoResetWithinInterval ==
    /\ [](\A p \in Procs :
            (pc[p] \in AfterReconcile /\ ~reset_happened[p])
               => (cycle_start[p] \in db.meta /\ elapsed[p] < 300))
    /\ [](\A p, q \in Procs :
            (/\ pc[p] = "done" /\ ~reset_happened[p]
             /\ pc[q] \in AfterReconcile /\ now[q] = now[p])
               => (~reset_happened[q] /\ cycle_start[q] = cycle_start[p]))
    /\ [][\A p \in Procs :
            (pc[p] = "r_now" /\ pc'[p] # "r_now" /\ clock - cycle_start[p] < 300)
               => /\ pc'[p] = "form"
                  /\ ~reset_happened'[p]
                  /\ cycle_start'[p] = cycle_start[p]
                  /\ elapsed'[p] = clock - cycle_start[p]
                  /\ db' = db /\ durable' = durable
       ]_vars

\* two successive reconciles at the same clock value, 150 seconds into the
\* cycle, with a comment in the store
C7_Witness ==
    \E p, q \in Procs :
        /\ pc[p] = "done" /\ ~reset_happened[p]
        /\ pc[q] = "form" /\ ~reset_happened[q]
        /\ now[q] = now[p] /\ elapsed[q] = 150
        /\ db.comments # {}

\* C8: every write of cycleStart stores a value greater than or equal to the
\* value stored just before it.
C8_CycleStartMonotone ==
    [][\A v \in db.meta : \A w \in db'.meta : w >= v]_vars

\* C9: when a reconcile has completed a reset from an expired cycleStart, a
\* second reconcile that read the same expired cycleStart neither deletes a
\* comment nor writes cycleStart.
C9_AtMostOneReset ==
    [][\A p, q \in Procs :
        (/\ p # q
         /\ pc[q] \in AfterReconcile \cup {"done"} /\ reset_happened[q]
         /\ cycle_start[p] = now[q] - elapsed[q])
           => /\ ~(Stepped(p, "r_delete", "r_update") /\ db.comments # {})
              /\ ~Stepped(p, "r_update", "r_commit")
    ]_vars

\* C10: while a reset is between its DELETE and its UPDATE no other request
\* reads the store and nothing is committed.
C10_ResetAtomic ==
    [][\A p \in Procs :
        pc[p] = "r_update"
           => /\ durable' = durable
              /\ \A q \in Procs \ {p} :
                    /\ ~(pc[q] = "gcs_select" /\ pc'[q] # "gcs_select")
                    /\ ~Stepped(q, "list", "done")
    ]_vars

\* C11: once a run is past get_cycle_start the store holds exactly one
\* cycle_start record, a record once present is never removed or doubled, and
\* every stored comment has an id (a positive integer the store assigned).
HasCycleStart == {"r_now", "r_delete", "r_update", "r_commit", "form",
                  "add_insert", "add_commit", "list", "done"}

C11_OneCycleStartRecord ==
    /\ []((\E p \in Procs : pc[p] \in HasCycleStart)
             => Cardinality(db.meta) = 1)
    /\ [](\A c \in db.comments : c.id \in 1..db.seq)
    /\ [][db.meta # {} => Cardinality(db'.meta) = 1]_vars

\* two requests raced on the first access, one INSERT was refused, and the
\* other request went on to store a comment
C11_Witness ==
    \E p, q \in Procs : /\ pc[p] = "error"
                        /\ pc[q] = "list" /\ result[q] = "ok"
                        /\ Cardinality(db.meta) = 1
                        /\ db.comments # {}

\* C12: get_comments returns every stored comment exactly once, ordered by id
\* strictly descending.
C12_NewestFirst ==
    [][\A p \in Procs :
        Stepped(p, "list", "done")
           => /\ Len(rows'[p]) = Cardinality(db.comments)
              /\ {rows'[p][i] : i \in 1..Len(rows'[p])} = db.comments
              /\ \A i, j \in 1..Len(rows'[p]) :
                    i < j => rows'[p][i].id > rows'[p][j].id
    ]_vars

\* a page listed two comments, the one appended later first
C12_Witness ==
    \E p \in Procs : /\ pc[p] = "done"
                     /\ Len(rows[p]) = 2
                     /\ rows[p][1].id = 2 /\ rows[p][2].id = 1
                     /\ rows[p][1].created_at > rows[p][2].created_at

\* C13: the append does not look at the store again: a submission that passed
\* the duplicate check is appended as one more row whatever the store holds
\* by then, so two requests that both passed the check with the same unused
\* URL both append it.
C13_AppendWithoutRecheck ==
    [][\A p \in Procs :
        Stepped(p, "add_insert", "add_commit")
           => /\ Cardinality(db'.comments) = Cardinality(db.comments) + 1
              /\ db.comments \subseteq db'.comments
              /\ \A c \in db'.comments \ db.comments :
                    gf_links(c.content) = gf_links(content[p])
    ]_vars

\* two stored comments of the current cycle contain the same required-prefix
\* URL
C13_Witness ==
    \E c1, c2 \in db.comments :
        /\ c1.id # c2.id
        /\ gf_links(c1.content) \cap gf_links(c2.content) # {}
        /\ \A v \in db.meta : c1.created_at >= v /\ c2.created_at >= v

\* C14: when a reconcile performs a reset, the remaining time it gives the
\* display is the full interval, 300 seconds; and in every run the displayed
\* remaining time lies between 0 and 300.
C14_ResetShowsFullInterval ==
    /\ [](\A p \in Procs : remaining[p] \in 0..RESET_SECONDS)
    /\ [][\A p \in Procs :
            Stepped(p, "r_commit", "form") => remaining'[p] = RESET_SECONDS]_vars

\* C15: every stored comment has a username and a content that are non-empty
\* with no leading or trailing whitespace; an append stores the trimmed
\* content, and the trimmed username or, for a blank username, the default.
Trimmed(s) == s # <<>> /\ s[1] # " " /\ s[Len(s)] # " "
IsTrimOf(t, s) ==
    /\ Trimmed(t)
    /\ \E i \in 1..Len(s) :
          /\ i + Len(t) - 1 <= Len(s)
          /\ t = SubSeq(s, i, i + Len(t) - 1)
          /\ \A k \in 1..Len(s) : (k < i \/ k > i + Len(t) - 1) => s[k] = " "

C15_StoredTextTrimmed ==
    /\ [](\A c \in db.comments : Trimmed(c.username) /\ Trimmed(c.content))
    /\ [][\A p \in Procs :
            Stepped(p, "add_insert", "add_commit") =>
                \E c \in db'.comments \ db.comments :
                    /\ IsTrimOf(c.content, content[p])
                    /\ IF IsBlankText(username[p])
                       THEN c.username = DEFAULT_USERNAME
                       ELSE IsTrimOf(c.username, username[p])]_vars

\* a blank username was stored as the default next to a trimmed one
C15_Witness ==
    /\ \E p \in Procs :
          /\ pc[p] = "add_commit"
          /\ username[p] = <<" ">>
          /\ \E c \in db.comments :
                c.username = DEFAULT_USERNAME /\ IsTrimOf(c.content, content[p])
    /\ \E c \in db.comments :
          c.username = <<"u">> /\ c.content = <<"x", "S", "G", "a">>

\* C16 as stated: extract_urls returns exactly the whitespace-delimited
\* tokens that begin with http:// or https://.
IsToken(text, i, j) ==
    /\ i <= j
    /\ \A k \in i..j : text[k] # " "
    /\ i = 1 \/ text[i - 1] = " "
    /\ j = Len(text) \/ text[j + 1] = " "
Tokens(text) ==
    {SubSeq(text, ij[1], ij[2]) :
        ij \in {x \in (1..Len(text)) \X (1..Len(text)) :
                   IsToken(text, x[1], x[2])}}

C16_ExactlySchemeTokens ==
    \A p \in Procs :
        pc[p] = "extracted" =>
            new_urls[p] = {t \in Tokens(content[p]) : t[1] \in {"S", "P"}}

\* C16 amended: extract_urls returns, for each whitespace-delimited token,
\* the part from its first scheme that has at least one more character after
\* it up to the end of the token, and nothing else: a token that is only a
\* scheme gives nothing, text before the scheme is dropped.
IsMatch(text, i, j) ==
    /\ i < j
    /\ text[i] \in {"S", "P"}
    /\ \A k \in i..j : text[k] # " "
    /\ j = Len(text) \/ text[j + 1] = " "
    /\ \A k \in 1..(i - 1) :
          (\A m \in k..i : text[m] # " ") => text[k] \notin {"S", "P"}
Matches(text) ==
    {SubSeq(text, ij[1], ij[2]) :
        ij \in {x \in (1..Len(text)) \X (1..Len(text)) :
                   IsMatch(text, x[1], x[2])}}

C16_SchemeToTokenEnd ==
    \A p \in Procs :
        pc[p] = "extracted" => new_urls[p] = Matches(content[p])

\* a scheme in the middle of a token was extracted without the text before it
C16_Witness ==
    \E p \in Procs :
        /\ pc[p] = "extracted"
        /\ content[p] = <<"x", "S", "x", "x">>
        /\ new_urls[p] = {<<"S", "x", "x">>}

\* C17: ids are unique; every id stored is at most the largest id assigned so
\* far, which never decreases, and an append gets an id above it: greater
\* than every id assigned before, deleted or not.
C17_IdsNeverReused ==
    /\ [](\A c, d \in db.comments : c.id = d.id => c = d)
    /\ [](\A c \in db.comments : c.id <= db.seq)
    /\ [][db'.seq >= db.seq]_vars
    /\ [][\A p \in Procs :
            Stepped(p, "add_insert", "add_commit") =>
                \E c \in db'.comments \ db.comments :
                    /\ c.id > db.seq
                    /\ c.id = db'.seq
                    /\ \A x \in db.comments : c.id > x.id]_vars

\* the first append after a reset emptied the table got id 2, not 1
C17_Witness ==
    \E p \in Procs :
        /\ pc[p] = "add_commit"
        /\ \E c \in db.comments :
              /\ db.comments = {c}
              /\ c.id = 2
              /\ c.created_at >= RESET_SECONDS

\* C18: every step either keeps each stored comment as it is, adding at most
\* one, or empties the table, and only the DELETE of a reset empties it.
C18_OnlyResetRemoves ==
    [][\/ /\ db.comments \subseteq db'.comments
          /\ Cardinality(db'.comments \ db.comments) <= 1
          /\ \A c \in db'.comments \ db.comments :
                \A x \in db.comments : x.id # c.id
       \/ /\ db'.comments = {}
          /\ \E p \in Procs : Stepped(p, "r_delete", "r_update")]_vars

\* a reset has just deleted two comments at once
C18_Witness ==
    \E p \in Procs :
        /\ pc[p] = "r_update"
        /\ db.comments = {}
        /\ Cardinality(durable.comments) = 2

\* C19: no request ends in an error, the concurrent first access included.
C19_NoRequestFails == \A p \in Procs : pc[p] # "error"

\* C20: every comment stored early enough for its cycle to end within the
\* modelled time is eventually no longer stored, when the clock keeps
\* advancing and requests keep arriving.
C20_EventuallyDeleted ==
    \A i \in 1..MaxId :
        (\E c \in db.comments :
            c.id = i /\ c.created_at + RESET_SECONDS <= MaxTime)
        ~> (\A c \in db.comments : c.id # i)

\* a reset has just deleted a comment whose cycle ended
C20_Witness ==
    \E p \in Procs :
        /\ pc[p] = "r_update"
        /\ now[p] >= RESET_SECONDS
        /\ \E c \in durable.comments :
              /\ c.created_at + RESET_SECONDS <= MaxTime
              /\ \A x \in db.comments : x.id # c.id

TypeOK ==
    /\ clock \in 0..MaxTime
    /\ db.seq \in 0..MaxId
    /\ Cardinality(db.meta) <= 1

====
